---- MODULE Spec2Model ----
(***************************************************************************)
(* Model of the HTTP request layer: the RateLimiter request queue, the     *)
(* request() executor and the OpenHands API facade with its cache.         *)
(*                                                                         *)
(* One action of the model is one turn of the JavaScript event loop: the   *)
(* synchronous code started by an external call, a timer or a network      *)
(* event, followed by the promise continuations (microtasks) it releases.  *)
(* Operators that take a state record s and return the next state record   *)
(* are the synchronous pieces of code; an action commits their result.     *)
(***************************************************************************)
EXTENDS Integers, Sequences, FiniteSets, TLC

(***************************************************************************)
(* Bounds of the model.                                                    *)
(***************************************************************************)
MaxUnits == 3          \* units handed to RateLimiter.enqueue in SpecRL
MaxThrottle == 2       \* 429 signals thrown by units in SpecRL
MaxCalls == 2          \* facade calls issued in Spec / SpecFiles

(***************************************************************************)
(* JavaScript numbers: finite rationals n/d, Infinity and NaN.             *)
(***************************************************************************)
Fin(n) == [k |-> "fin", n |-> n, d |-> 1]
Infinity == [k |-> "inf", n |-> 0, d |-> 1]
NaN == [k |-> "nan", n |-> 0, d |-> 1]

\* a === b on numbers (NaN is equal to nothing)
StrictEq(a, b) == a.k # "nan" /\ b.k # "nan" /\ a = b

\* a / b for non-negative a, b
JsDiv(a, b) ==
  IF a.k = "nan" \/ b.k = "nan" THEN NaN
  ELSE IF a.k = "inf" THEN (IF b.k = "inf" THEN NaN ELSE Infinity)
  ELSE IF b.k = "inf" THEN Fin(0)
  ELSE IF b.n = 0 THEN (IF a.n = 0 THEN NaN ELSE Infinity)
  ELSE [k |-> "fin", n |-> a.n, d |-> b.n]

\* x > p/q  (q > 0); every comparison with NaN is false.  The quotient of
\* two integers below 2^53 and the literals 0.5, 0.2, 0.1 are correctly
\* rounded doubles, so the comparison agrees with the exact one.
JsGt(x, p, q) ==
  IF x.k = "nan" THEN FALSE
  ELSE IF x.k = "inf" THEN TRUE
  ELSE x.n * q > p * x.d

\* a * m for a number a and a non-negative integer m > 0
JsTimes(a, m) == IF a.k = "fin" THEN [a EXCEPT !.n = a.n * m] ELSE a

(***************************************************************************)
(* Strings are sequences of characters.                                    *)
(***************************************************************************)
Digits == <<"0", "1", "2", "3", "4", "5", "6", "7", "8", "9">>
IsDigit(c) == \E i \in 1..10 : Digits[i] = c
DigitVal(c) == (CHOOSE i \in 1..10 : Digits[i] = c) - 1

RECURSIVE ParseDigits(_, _, _)
ParseDigits(str, i, acc) ==
  IF i > Len(str) \/ ~IsDigit(str[i]) THEN acc
  ELSE ParseDigits(str, i + 1, acc * 10 + DigitVal(str[i]))

\* parseInt(str) for strings without sign or leading blanks: the value of
\* the leading decimal digits, NaN when the string does not start with one
parseInt(str) ==
  IF Len(str) = 0 \/ ~IsDigit(str[1]) THEN NaN
  ELSE Fin(ParseDigits(str, 1, 0))

InfinityLiteral == <<"I", "n", "f", "i", "n", "i", "t", "y">>

\* headers.get(name) || 'Infinity' : null and "" are both falsy
OrInfinity(h) == IF Len(h) = 0 THEN InfinityLiteral ELSE h

Missing == <<>>
NoHeaders == [remaining |-> Missing, reset |-> Missing, limit |-> Missing]
HasRateLimitHeaders(h) == h # NoHeaders

RemainingValues == {Missing, <<"0">>, <<"1">>, <<"2">>, <<"3">>, <<"5">>, <<"6">>}
LimitValues == {Missing, <<"0">>, <<"1", "0">>}
ResetValues == {Missing, <<"7">>}
HeaderSets == [remaining : RemainingValues, reset : ResetValues, limit : LimitValues]

\* the values new Date() takes when a response is handled
Dates == {0, 1}

\* the header sets of the responses in Spec and SpecFiles
ResponseHeaders ==
  {NoHeaders,
   [remaining |-> <<"3">>, reset |-> Missing, limit |-> <<"1", "0">>],
   [remaining |-> <<"6">>, reset |-> <<"7">>, limit |-> <<"1", "0">>]}

\* str.startsWith(prefix)
StartsWith(str, prefix) ==
  /\ Len(prefix) <= Len(str)
  /\ SubSeq(str, 1, Len(prefix)) = prefix

\* str.split(sep) for a one-character separator
RECURSIVE Split(_, _)
Split(str, sep) ==
  IF \A i \in 1..Len(str) : str[i] # sep THEN <<str>>
  ELSE LET i == CHOOSE j \in 1..Len(str) :
                  str[j] = sep /\ \A k \in 1..(j - 1) : str[k] # sep
       IN <<SubSeq(str, 1, i - 1)>> \o Split(SubSeq(str, i + 1, Len(str)), sep)

\* parts.join(sep)
RECURSIVE Join(_, _)
Join(parts, sep) ==
  IF Len(parts) = 0 THEN <<>>
  ELSE IF Len(parts) = 1 THEN parts[1]
  ELSE parts[1] \o <<sep>> \o Join(Tail(parts), sep)

\* parts.slice(0, -1)
DropLast(parts) == SubSeq(parts, 1, Len(parts) - 1)

\* path.split('/').slice(0, -1).join('/')
DirOf(path) == Join(DropLast(Split(path, "/")), "/")

\* encodeURIComponent on the characters of the model's paths
RECURSIVE encodeURIComponent(_)
encodeURIComponent(str) ==
  IF Len(str) = 0 THEN <<>>
  ELSE (IF str[1] = "/" THEN <<"%2F">> ELSE <<str[1]>>) \o encodeURIComponent(Tail(str))

(***************************************************************************)
(* URLs, the unauthenticated routes, JSON values and cache keys.           *)
(***************************************************************************)
UrlModels == <<"/", "api", "/", "options", "/", "models">>
UrlAgents == <<"/", "api", "/", "options", "/", "agents">>
UrlSecurityAnalyzers == <<"/", "api", "/", "options", "/", "security-analyzers">>
UrlConfig == <<"/", "config.json">>
UrlListFiles == <<"/", "api", "/", "list-files">>
UrlSelectFile == <<"/", "api", "/", "select-file", "?file=">>
UrlSaveFile == <<"/", "api", "/", "save-file">>
UrlUploadFiles == <<"/", "api", "/", "upload-files">>
UrlZipDirectory == <<"/", "api", "/", "zip-directory">>
UrlSubmitFeedback == <<"/", "api", "/", "submit-feedback">>
UrlGitHubCallback == <<"/", "api", "/", "github", "/", "callback">>
UrlAuthenticate == <<"/", "api", "/", "authenticate">>
UrlRateLimit == <<"/", "api", "/", "rate-limit">>

UNAUTHED_ROUTE_PREFIXES ==
  {<<"/", "api", "/", "authenticate">>,
   <<"/", "api", "/", "options", "/">>,
   <<"/", "config.json">>,
   <<"/", "api", "/", "github", "/", "callback">>}

DefaultMaxRetries == 3

\* needsAuth that compares the whole URL with the entries of the list
needsAuth_ExactMatch(url) == url \notin UNAUTHED_ROUTE_PREFIXES

needsAuth(url) == ~\E prefix \in UNAUTHED_ROUTE_PREFIXES : StartsWith(url, prefix)

\* JavaScript values: undefined, strings, parsed JSON objects, a Response
Undefined == [t |-> "undefined", v |-> ""]
Str(c) == [t |-> "string", v |-> c]
Json(name) == [t |-> "object", v |-> name]
FileJson(c) == [t |-> "file", v |-> c]      \* { code: c }
ResponseObject == [t |-> "response", v |-> ""]
\* a reference to the object at address i of the heap
Ref(i) == [t |-> "ref", v |-> i]
\* a JSON text that describes a quota record
QuotaJson(info) == [t |-> "quota", v |-> info]
Truthy(x) == ~(x.t = "undefined" \/ (x.t = "string" /\ x.v = ""))

\* data.code
CodeOf(data) == IF data.t = "file" THEN Str(data.v) ELSE Undefined

FilePrefix == <<"file:">>
FilesPrefix == <<"files:">>
FilesRootKey == <<"files:", "r", "o", "o", "t">>

\* cache.get / cache.set / cache.delete on a map from keys to values
CacheGet(c, key) == IF key \in DOMAIN c THEN c[key] ELSE Undefined
CacheSet(c, key, val) == [k \in DOMAIN c \cup {key} |-> IF k = key THEN val ELSE c[k]]
CacheDelete(c, key) == [k \in DOMAIN c \ {key} |-> c[k]]

\* the element of a one-element set. { e : s \in {state} } evaluates state
\* once and names its value s, as a call evaluates its argument once.
The(S) == CHOOSE x \in S : TRUE

(***************************************************************************)
(* State.                                                                  *)
(***************************************************************************)
VARIABLES
  rateLimitInfo,   \* RateLimiter.rateLimitInfo
  requestQueue,    \* RateLimiter.requestQueue: ids of the queued units
  isProcessing,    \* RateLimiter.isProcessing
  backoffTime,     \* RateLimiter.backoffTime (ms)
  loops,           \* activations of processQueue that have not returned
  units,           \* every unit ever handed to enqueue, by id
  execLog,         \* history: the executions started by the drain loop
  calls,           \* the calls made to the OpenHands facade, by id
  cache,           \* the cache: a map from keys to values
  token,           \* getToken() returns a token
  lastResponse,    \* history: the latest response handled by executeRequest
  heap,            \* the quota records that callers can hold a reference to
  facadeRateLimitInfo, \* OpenHands.rateLimitInfo: a reference into heap
  serverFiles      \* the files of the workspace on the server, where modelled

vars == <<rateLimitInfo, requestQueue, isProcessing, backoffTime, loops,
          units, execLog, calls, cache, token, lastResponse, heap,
          facadeRateLimitInfo, serverFiles>>

Cur == [rateLimitInfo |-> rateLimitInfo, requestQueue |-> requestQueue,
        isProcessing |-> isProcessing, backoffTime |-> backoffTime,
        loops |-> loops, units |-> units, execLog |-> execLog,
        calls |-> calls, cache |-> cache, token |-> token,
        lastResponse |-> lastResponse, heap |-> heap,
        facadeRateLimitInfo |-> facadeRateLimitInfo,
        serverFiles |-> serverFiles]

Commit(state) ==
  \E s \in {state} :
    /\ rateLimitInfo' = s.rateLimitInfo
    /\ requestQueue' = s.requestQueue
    /\ isProcessing' = s.isProcessing
    /\ backoffTime' = s.backoffTime
    /\ loops' = s.loops
    /\ units' = s.units
    /\ execLog' = s.execLog
    /\ calls' = s.calls
    /\ cache' = s.cache
    /\ token' = s.token
    /\ lastResponse' = s.lastResponse
    /\ heap' = s.heap
    /\ facadeRateLimitInfo' = s.facadeRateLimitInfo
    /\ serverFiles' = s.serverFiles

InitialBackoffTime == 1000

\* { requestsRemaining: Infinity, resetTime: new Date(), totalLimit: Infinity }
Unbounded == [requestsRemaining |-> Infinity, resetTime |-> Fin(0),
              totalLimit |-> Infinity]

Init ==
  /\ rateLimitInfo = Unbounded
  /\ requestQueue = <<>>
  /\ isProcessing = FALSE
  /\ backoffTime = InitialBackoffTime
  /\ loops = <<>>
  /\ units = <<>>
  /\ execLog = <<>>
  /\ calls = <<>>
  /\ cache = <<>>
  /\ token = FALSE
  /\ lastResponse = [n |-> 0, unit |-> 0, status |-> 0, headers |-> NoHeaders]
  /\ heap = <<Unbounded>>
  /\ facadeRateLimitInfo = Ref(1)
  /\ serverFiles = <<>>

(***************************************************************************)
(* RateLimiter.                                                            *)
(***************************************************************************)
\* date is the value of new Date() at the time of the call
updateRateLimits(s, headers, date) ==
  LET remaining == parseInt(OrInfinity(headers.remaining))
      reset == headers.reset
      limit == parseInt(OrInfinity(headers.limit))
  IN [s EXCEPT !.rateLimitInfo =
        [requestsRemaining |-> remaining,
         resetTime |-> IF Len(reset) > 0 THEN JsTimes(parseInt(reset), 1000)
                       ELSE Fin(date),
         totalLimit |-> limit]]

\* BackoffOf with the 0.2 threshold compared by >= instead of >
BackoffOf_InclusiveThreshold(info, base) ==
  IF StrictEq(info.requestsRemaining, Infinity) THEN 0
  ELSE LET remainingPercentage == JsDiv(info.requestsRemaining, info.totalLimit)
       IN IF JsGt(remainingPercentage, 1, 2) THEN 0
          ELSE IF JsGt(remainingPercentage, 1, 5) \/ remainingPercentage = [k |-> "fin", n |-> 2, d |-> 10]
               THEN base
          ELSE IF JsGt(remainingPercentage, 1, 10) THEN base * 2
          ELSE base * 4

\* calculateBackoff on a quota record and a backoff base time
BackoffOf(info, base) ==
  IF StrictEq(info.requestsRemaining, Infinity) THEN 0
  ELSE LET remainingPercentage == JsDiv(info.requestsRemaining, info.totalLimit)
       IN IF JsGt(remainingPercentage, 1, 2) THEN 0
          ELSE IF JsGt(remainingPercentage, 1, 5) THEN base
          ELSE IF JsGt(remainingPercentage, 1, 10) THEN base * 2
          ELSE base * 4

calculateBackoff(s) == BackoffOf(s.rateLimitInfo, s.backoffTime)

RemoveAt(seq, i) == SubSeq(seq, 1, i - 1) \o SubSeq(seq, i + 1, Len(seq))

\* the promise returned by execute() of unit u settles: res is "ok" with
\* value val, "r429" (a Response of status 429 is thrown) or "err" with
\* error err
ExecuteSettles(s, u, res, val, err) ==
  [s EXCEPT !.units[u].result = res, !.units[u].st = "settled",
            !.units[u].val = val, !.units[u].err = err]

\* new Error("Max retries exceeded"): an error is its message, a sequence
\* of pieces of text
MaxRetriesExceeded == <<"Max retries exceeded">>

\* StartRequest that waits for the token whatever the URL
StartRequest_WaitsOnEveryRoute(s, u) ==
  LET r == s.units[u]
  IN IF r.maxRetries < 0
     THEN ExecuteSettles(s, u, "err", Undefined, MaxRetriesExceeded)
     ELSE IF ~s.token
     THEN [s EXCEPT !.units[u].st = "authWait"]
     ELSE [s EXCEPT !.units[u].st = "fetch", !.units[u].fetches = @ + 1]

\* executeRequest up to its first suspension (lines 374-412)
StartRequest(s, u) ==
  LET r == s.units[u]
  IN IF r.maxRetries < 0
     THEN ExecuteSettles(s, u, "err", Undefined, MaxRetriesExceeded)
     ELSE IF ~s.token /\ needsAuth(r.url)
     THEN [s EXCEPT !.units[u].st = "authWait"]
     ELSE [s EXCEPT !.units[u].st = "fetch", !.units[u].fetches = @ + 1]

\* request.execute(): the synchronous start of unit u
Execute(s, u) ==
  LET s1 == [s EXCEPT !.units[u].result = "pending",
                      !.execLog = Append(@, [u |-> u, throttled |-> FALSE])]
  IN IF s.units[u].kind = "request" THEN StartRequest(s1, u)
     ELSE [s1 EXCEPT !.units[u].st = "running"]

\* Dispatch that executes the head of the queue without removing it
Dispatch_KeepsHead(state, i) ==
  The({
    IF Len(s.requestQueue) = 0 THEN [s EXCEPT !.loops = RemoveAt(@, i)]
    ELSE LET u == Head(s.requestQueue)
             s1 == [s EXCEPT !.loops[i] = [pc |-> "execute", cur |-> u,
                                           at |-> Len(s.execLog) + 1]]
         IN Execute(s1, u)
  : s \in {state}})

\* const request = this.requestQueue.shift()!; request.execute() in loop i.
\* On an empty queue request is undefined and the activation dies with a
\* TypeError, leaving isProcessing as it is.
Dispatch(state, i) ==
  The({
    IF Len(s.requestQueue) = 0 THEN [s EXCEPT !.loops = RemoveAt(@, i)]
    ELSE LET u == Head(s.requestQueue)
             s1 == [s EXCEPT !.requestQueue = Tail(@),
                             !.loops[i] = [pc |-> "execute", cur |-> u,
                                           at |-> Len(s.execLog) + 1]]
         IN Execute(s1, u)
  : s \in {state}})

\* Iterate that leaves the flag raised when the loop exits
Iterate_KeepsFlag(state, i) ==
  The({
    IF Len(s.requestQueue) > 0
    THEN IF calculateBackoff(s) > 0
         THEN [s EXCEPT !.loops[i] = [pc |-> "backoff", cur |-> 0, at |-> 0]]
         ELSE Dispatch(s, i)
    ELSE [s EXCEPT !.loops = RemoveAt(@, i)]
  : s \in {state}})

\* the top of the while loop of activation i
Iterate(state, i) ==
  The({
    IF Len(s.requestQueue) > 0
    THEN IF calculateBackoff(s) > 0
         THEN [s EXCEPT !.loops[i] = [pc |-> "backoff", cur |-> 0, at |-> 0]]
         ELSE Dispatch(s, i)
    ELSE [s EXCEPT !.isProcessing = FALSE, !.loops = RemoveAt(@, i)]
  : s \in {state}})

\* processQueue that forgets to raise the flag
processQueue_NoFlag(s) ==
  IF s.isProcessing \/ Len(s.requestQueue) = 0 THEN s
  ELSE Iterate([s EXCEPT !.loops = Append(@, [pc |-> "start", cur |-> 0, at |-> 0])],
               Len(s.loops) + 1)

processQueue(s) ==
  IF s.isProcessing \/ Len(s.requestQueue) = 0 THEN s
  ELSE Iterate([s EXCEPT !.isProcessing = TRUE,
                         !.loops = Append(@, [pc |-> "start", cur |-> 0, at |-> 0])],
               Len(s.loops) + 1)

enqueue(s, u) ==
  LET s1 == [s EXCEPT !.requestQueue = Append(@, u)]
  IN IF ~s1.isProcessing THEN processQueue(s1) ELSE s1

\* request.resolve(result) / request.reject(error): settle the future
\* returned by enqueue; whoever awaits it is notified in a later microtask
SettleFuture(s, u, how) ==
  [s EXCEPT !.units[u].future = how,
            !.units[u].notify = (s.units[u].parent # 0 \/ s.units[u].call # 0)]

\* LoopResume that puts a throttled unit back at the tail of the queue
LoopResume_RequeueAtTail(s, i) ==
  LET u == s.loops[i].cur
      res == s.units[u].result
  IN IF res = "ok" THEN Iterate(SettleFuture(s, u, "resolved"), i)
     ELSE IF res = "r429"
     THEN [s EXCEPT !.backoffTime = @ * 2,
                    !.requestQueue = Append(@, u),
                    !.units[u].st = "queued",
                    !.execLog[s.loops[i].at].throttled = TRUE,
                    !.loops[i].pc = "throttle"]
     ELSE Iterate(SettleFuture(s, u, "rejected"), i)

\* processQueue resumes in activation i after await request.execute()
LoopResume(state, i) ==
  The({
    LET u == s.loops[i].cur
        res == s.units[u].result
    IN IF res = "ok" THEN Iterate(SettleFuture(s, u, "resolved"), i)
       ELSE IF res = "r429"
       THEN [s EXCEPT !.backoffTime = @ * 2,
                      !.requestQueue = <<u>> \o @,
                      !.units[u].st = "queued",
                      !.execLog[s.loops[i].at].throttled = TRUE,
                      !.loops[i].pc = "throttle"]
       ELSE Iterate(SettleFuture(s, u, "rejected"), i)
  : s \in {state}})

(***************************************************************************)
(* request() and executeRequest.                                           *)
(***************************************************************************)
NewRequest(url, disableToast, returnResponse, maxRetries, parent, call) ==
  [kind |-> "request", st |-> "queued", result |-> "pending",
   future |-> "pending", notify |-> FALSE, val |-> Undefined, err |-> <<>>,
   parent |-> parent, call |-> call, child |-> 0,
   url |-> url, disableToast |-> disableToast,
   returnResponse |-> returnResponse, maxRetries |-> maxRetries,
   fetches |-> 0, seen |-> {}, toasts |-> 0, caught |-> <<>>]

\* request(url, options, disableToast, returnResponse, maxRetries), called
\* by unit parent or by facade call call; the new unit gets the next id
request(s, url, disableToast, returnResponse, maxRetries, parent, call) ==
  enqueue([s EXCEPT !.units = Append(@, NewRequest(url, disableToast,
                                 returnResponse, maxRetries, parent, call))],
          Len(s.units) + 1)

\* response.statusText
StatusText(status) ==
  CASE status = 200 -> "OK"
    [] status = 304 -> "Not Modified"
    [] status = 401 -> "Unauthorized"
    [] status = 429 -> "Too Many Requests"
    [] OTHER -> "Internal Server Error"

\* `${response.status} error while fetching ${url}: ${response.statusText}`
StatusErrorMessage(url, status) ==
  <<ToString(status), " error while fetching ">> \o url \o <<": ", StatusText(status)>>

\* `Error fetching ${url}: ${response.statusText}`
NotOkMessage(url, status) == <<"Error fetching ">> \o url \o <<": ", StatusText(status)>>

\* `Error parsing JSON from ${url}`
ParseErrorMessage(url) == <<"Error parsing JSON from ">> \o url

\* `Error fetching ${url}`
FetchErrorMessage(url) == <<"Error fetching ">> \o url

\* the TypeError a failed fetch rejects with
FailedToFetch == <<"Failed to fetch">>

\* onFail(msg): toast unless suppressed, then throw new Error(msg); err
\* holds the error unit u has thrown last
onFail(s, u, msg) ==
  [s EXCEPT !.units[u].toasts = IF s.units[u].disableToast THEN @ ELSE @ + 1,
            !.units[u].err = msg]

\* the outer catch (lines 453-456) catches error e: onFail(`Error fetching
\* ${url}`) throws before e can be rethrown
OuterCatch(s, u, e) ==
  LET s1 == onFail([s EXCEPT !.units[u].caught = e], u,
                   FetchErrorMessage(s.units[u].url))
  IN ExecuteSettles(s1, u, "err", Undefined, s1.units[u].err)

\* an error thrown by onFail(msg) inside the try block
FailInTry(s, u, msg) == OuterCatch(onFail(s, u, msg), u, msg)

\* the recursive request(url, options, disableToast, returnResponse,
\* maxRetries - 1) whose promise unit u returns
Retry(s, u) ==
  LET r == s.units[u]
  IN request([s EXCEPT !.units[u].st = "awaitRetry",
                       !.units[u].child = Len(s.units) + 1],
             r.url, r.disableToast, r.returnResponse, r.maxRetries - 1, u, 0)

\* HandleResponse that retries a status >= 400 like a 429
HandleResponse_RetriesErrors(s, u, status, headers, date) ==
  LET s1 == updateRateLimits(
              [s EXCEPT !.units[u].seen = @ \cup {status},
                        !.lastResponse = [n |-> s.lastResponse.n + 1, unit |-> u,
                                          status |-> status, headers |-> headers]],
              headers, date)
  IN IF status = 401
     THEN request([s1 EXCEPT !.units[u].st = "awaitAuth",
                             !.units[u].child = Len(s.units) + 1],
                  UrlAuthenticate, TRUE, FALSE, DefaultMaxRetries, u, 0)
     ELSE IF status = 429 THEN [s1 EXCEPT !.units[u].st = "retryAfter"]
     ELSE IF status >= 400 THEN [s1 EXCEPT !.units[u].st = "retryAfter"]
     ELSE IF ~(status >= 200 /\ status <= 299)
     THEN FailInTry(s1, u, NotOkMessage(s.units[u].url, status))
     ELSE IF s1.units[u].returnResponse
     THEN ExecuteSettles(s1, u, "ok", ResponseObject, <<>>)
     ELSE [s1 EXCEPT !.units[u].st = "parse"]

\* executeRequest of unit u after fetch resolved with a response
HandleResponse(s, u, status, headers, date) ==
  LET s1 == updateRateLimits(
              [s EXCEPT !.units[u].seen = @ \cup {status},
                        !.lastResponse = [n |-> s.lastResponse.n + 1, unit |-> u,
                                          status |-> status, headers |-> headers]],
              headers, date)
  IN IF status = 401
     THEN request([s1 EXCEPT !.units[u].st = "awaitAuth",
                             !.units[u].child = Len(s.units) + 1],
                  UrlAuthenticate, TRUE, FALSE, DefaultMaxRetries, u, 0)
     ELSE IF status = 429 THEN [s1 EXCEPT !.units[u].st = "retryAfter"]
     ELSE IF status >= 400
     THEN FailInTry(s1, u, StatusErrorMessage(s.units[u].url, status))
     ELSE IF ~(status >= 200 /\ status <= 299)
     THEN FailInTry(s1, u, NotOkMessage(s.units[u].url, status))
     ELSE IF s1.units[u].returnResponse
     THEN ExecuteSettles(s1, u, "ok", ResponseObject, <<>>)
     ELSE [s1 EXCEPT !.units[u].st = "parse"]

\* unit p resumes after the future of its nested request c settled
ParentContinue(s, p, c) ==
  LET ch == s.units[c]
  IN IF s.units[p].st = "awaitAuth"
     THEN IF ch.future = "resolved" THEN Retry(s, p) ELSE OuterCatch(s, p, ch.err)
     ELSE IF ch.future = "resolved"
          THEN ExecuteSettles(s, p, "ok", ch.val, <<>>)
          ELSE ExecuteSettles(s, p, "err", Undefined, ch.err)

(***************************************************************************)
(* The OpenHands facade.  A call is [op, path, content, files]; st is      *)
(* "pending" until the call returns or throws.                             *)
(***************************************************************************)
FilesKey(path) == IF Len(path) > 0 THEN FilesPrefix \o path ELSE FilesRootKey
FileKey(path) == FilePrefix \o path

ListFilesUrl(path) ==
  IF Len(path) > 0 THEN UrlListFiles \o <<"?path=">> \o encodeURIComponent(path)
  ELSE UrlListFiles

Return(s, c, val, hit) ==
  [s EXCEPT !.calls[c].st = "returned", !.calls[c].ret = val, !.calls[c].hit = hit]

\* const cachedData = cache.get(key); if (cachedData) return cachedData;
\* const data = await request(url)
CachedRead(s, c, key, url) ==
  LET cachedData == CacheGet(s.cache, key)
  IN IF Truthy(cachedData) THEN Return(s, c, cachedData, TRUE)
     ELSE request(s, url, FALSE, FALSE, DefaultMaxRetries, 0, c)

getModels(s, c) == CachedRead(s, c, <<"models">>, UrlModels)
getAgents(s, c) == CachedRead(s, c, <<"agents">>, UrlAgents)
getSecurityAnalyzers(s, c) ==
  CachedRead(s, c, <<"security-analyzers">>, UrlSecurityAnalyzers)
getConfig(s, c) == CachedRead(s, c, <<"config">>, UrlConfig)
getFiles(s, c, path) == CachedRead(s, c, FilesKey(path), ListFilesUrl(path))
getFile(s, c, path) ==
  CachedRead(s, c, FileKey(path), UrlSelectFile \o encodeURIComponent(path))
saveFile(s, c) == request(s, UrlSaveFile, FALSE, FALSE, DefaultMaxRetries, 0, c)
uploadFiles(s, c) == request(s, UrlUploadFiles, FALSE, FALSE, DefaultMaxRetries, 0, c)
getWorkspaceZip(s, c) == request(s, UrlZipDirectory, FALSE, TRUE, DefaultMaxRetries, 0, c)
submitFeedback(s, c) == request(s, UrlSubmitFeedback, FALSE, FALSE, DefaultMaxRetries, 0, c)
getGitHubAccessToken(s, c) ==
  request(s, UrlGitHubCallback, FALSE, FALSE, DefaultMaxRetries, 0, c)
authenticate(s, c) == request(s, UrlAuthenticate, TRUE, FALSE, DefaultMaxRetries, 0, c)

\* { ...record }: a new object with the fields of the object at ref
Spread(s, ref) == [s EXCEPT !.heap = Append(@, s.heap[ref.v])]

\* OpenHands.getRateLimitStatus()
getRateLimitStatus(s, c) ==
  Return(Spread(s, s.facadeRateLimitInfo), c, Ref(Len(s.heap) + 1), FALSE)

\* getRateLimitInfo(): rateLimiter.getRateLimitInfo(), a new object with
\* the fields of the limiter's record
getRateLimitInfo(s, c) ==
  Return([s EXCEPT !.heap = Append(@, s.rateLimitInfo)], c,
         Ref(Len(s.heap) + 1), FALSE)

\* OpenHands.checkRateLimit() up to its await
checkRateLimit(s, c) == request(s, UrlRateLimit, TRUE, FALSE, DefaultMaxRetries, 0, c)

\* the synchronous part of facade call c
Invoke(s, c) ==
  LET call == s.calls[c]
  IN CASE call.op = "getModels" -> getModels(s, c)
       [] call.op = "getAgents" -> getAgents(s, c)
       [] call.op = "getSecurityAnalyzers" -> getSecurityAnalyzers(s, c)
       [] call.op = "getConfig" -> getConfig(s, c)
       [] call.op = "getFiles" -> getFiles(s, c, call.path)
       [] call.op = "getFile" -> getFile(s, c, call.path)
       [] call.op = "saveFile" -> saveFile(s, c)
       [] call.op = "uploadFiles" -> uploadFiles(s, c)
       [] call.op = "getWorkspaceZip" -> getWorkspaceZip(s, c)
       [] call.op = "submitFeedback" -> submitFeedback(s, c)
       [] call.op = "getGitHubAccessToken" -> getGitHubAccessToken(s, c)
       [] call.op = "getRateLimitStatus" -> getRateLimitStatus(s, c)
       [] call.op = "getRateLimitInfo" -> getRateLimitInfo(s, c)
       [] call.op = "checkRateLimit" -> checkRateLimit(s, c)
       [] OTHER -> authenticate(s, c)

\* SaveFileInvalidate that drops the listings only
SaveFileInvalidate_ListingsOnly(c, path) ==
  CacheDelete(CacheDelete(c, FilesRootKey), FilesPrefix \o DirOf(path))

\* saveFile after the request: lines 152-157
SaveFileInvalidate(c, path) ==
  CacheDelete(CacheDelete(CacheDelete(c, FileKey(path)), FilesRootKey),
              FilesPrefix \o DirOf(path))

\* file.forEach of lines 178-182
RECURSIVE UploadForEach(_, _)
UploadForEach(c, files) ==
  IF Len(files) = 0 THEN c
  ELSE LET f == Head(files)
           path == IF Len(f.webkitRelativePath) > 0 THEN f.webkitRelativePath
                   ELSE f.name
           dir == DirOf(path)
       IN UploadForEach(IF Len(dir) > 0 THEN CacheDelete(c, FilesPrefix \o dir) ELSE c,
                        Tail(files))

\* UploadInvalidate that forgets the directories of the uploaded files
UploadInvalidate_RootOnly(c, files) == CacheDelete(c, FilesRootKey)

\* uploadFiles after the request: lines 176-184
UploadInvalidate(c, files) == UploadForEach(CacheDelete(c, FilesRootKey), files)

\* checkRateLimitContinue without the try/catch
checkRateLimitContinue_Rethrows(s, c, u) ==
  LET response == s.units[u].val
  IN IF s.units[u].future = "rejected"
     THEN [s EXCEPT !.calls[c].st = "threw", !.calls[c].err = s.units[u].err]
     ELSE Return([s EXCEPT !.facadeRateLimitInfo = response], c, response, FALSE)

\* checkRateLimit after the await: lines 248-253
checkRateLimitContinue(s, c, u) ==
  LET response == s.units[u].val
  IN IF s.units[u].future = "rejected"
     THEN getRateLimitStatus(s, c)
     ELSE Return([s EXCEPT !.facadeRateLimitInfo = response], c, response, FALSE)

\* facade call c resumes after await request(..) settled with unit u
CallContinue(s, c, u) ==
  LET call == s.calls[c]
      unit == s.units[u]
      data == unit.val
  IN IF call.op = "checkRateLimit" THEN checkRateLimitContinue(s, c, u)
     ELSE IF unit.future = "rejected"
     THEN [s EXCEPT !.calls[c].st = "threw", !.calls[c].err = unit.err]
     ELSE CASE call.op = "getModels" ->
                 Return([s EXCEPT !.cache = CacheSet(@, <<"models">>, data)], c, data, FALSE)
            [] call.op = "getAgents" ->
                 Return([s EXCEPT !.cache = CacheSet(@, <<"agents">>, data)], c, data, FALSE)
            [] call.op = "getSecurityAnalyzers" ->
                 Return([s EXCEPT !.cache = CacheSet(@, <<"security-analyzers">>, data)],
                        c, data, FALSE)
            [] call.op = "getConfig" ->
                 Return([s EXCEPT !.cache = CacheSet(@, <<"config">>, data)], c, data, FALSE)
            [] call.op = "getFiles" ->
                 Return([s EXCEPT !.cache = CacheSet(@, FilesKey(call.path), data)],
                        c, data, FALSE)
            [] call.op = "getFile" ->
                 Return([s EXCEPT !.cache = CacheSet(@, FileKey(call.path), CodeOf(data))],
                        c, CodeOf(data), FALSE)
            [] call.op = "saveFile" ->
                 Return([s EXCEPT !.cache = SaveFileInvalidate(@, call.path)], c, data, FALSE)
            [] call.op = "uploadFiles" ->
                 Return([s EXCEPT !.cache = UploadInvalidate(@, call.files)], c, data, FALSE)
            [] OTHER -> Return(s, c, data, FALSE)

(***************************************************************************)
(* Microtasks: the continuations released by the synchronous code of an    *)
(* event-loop turn run before the turn ends.                               *)
(***************************************************************************)
Resumable(s) ==
  {i \in 1..Len(s.loops) :
     s.loops[i].pc = "execute" /\ s.units[s.loops[i].cur].result # "pending"}

Notified(s) == {u \in 1..Len(s.units) : s.units[u].notify}

Min(S) == CHOOSE x \in S : \A y \in S : x <= y

\* the future of unit u is delivered to the unit or the facade call awaiting it
Deliver(s, u) ==
  LET s1 == [s EXCEPT !.units[u].notify = FALSE]
  IN IF s.units[u].parent # 0 THEN ParentContinue(s1, s.units[u].parent, u)
     ELSE CallContinue(s1, s.units[u].call, u)

RECURSIVE Microtasks(_)
Microtasks(state) ==
  The({
    IF Resumable(s) # {} THEN Microtasks(LoopResume(s, Min(Resumable(s))))
    ELSE IF Notified(s) # {} THEN Microtasks(Deliver(s, Min(Notified(s))))
    ELSE s
  : s \in {state}})

(***************************************************************************)
(* Actions of the RateLimiter with arbitrary units (SpecRL).               *)
(***************************************************************************)
NewUnit == [kind |-> "unit", st |-> "queued", result |-> "pending",
            future |-> "pending", notify |-> FALSE, val |-> Undefined,
            err |-> <<>>, parent |-> 0, call |-> 0]

\* rateLimiter.enqueue(execute)
EnqueueUnit ==
  /\ Len(units) < MaxUnits
  /\ Commit(Microtasks(enqueue([Cur EXCEPT !.units = Append(@, NewUnit)],
                               Len(units) + 1)))

\* setTimeout(resolve, backoff) of line 336 fires
BackoffElapsed ==
  \E i \in 1..Len(loops) :
    /\ loops[i].pc = "backoff"
    /\ Commit(Microtasks(Dispatch(Cur, i)))

\* setTimeout(resolve, this.backoffTime) of line 347 fires
ThrottleElapsed ==
  \E i \in 1..Len(loops) :
    /\ loops[i].pc = "throttle"
    /\ Commit(Microtasks(Iterate(Cur, i)))

Throttles == Cardinality({j \in 1..Len(execLog) : execLog[j].throttled})

\* the error a unit of SpecRL fails with when it is not the 429 signal
UnitError == <<"unit failed">>

\* the running unit finishes: with a value, with a Response of status 429,
\* or with any other error
UnitFinish ==
  \E u \in 1..Len(units), res \in {"ok", "r429", "err"} :
    /\ units[u].kind = "unit"
    /\ units[u].st = "running"
    /\ res = "r429" => Throttles < MaxThrottle
    /\ Commit(Microtasks(ExecuteSettles(Cur, u, res, Undefined,
                                        IF res = "err" THEN UnitError ELSE <<>>)))

\* the running unit reports the headers of a response, one of headerSets
UnitReports(headerSets) ==
  \E u \in 1..Len(units), h \in headerSets, date \in Dates :
    /\ units[u].kind = "unit"
    /\ units[u].st = "running"
    /\ Len(h.reset) > 0 => date = 0
    /\ Commit(updateRateLimits(Cur, h, date))

UnitUpdatesLimits == UnitReports(HeaderSets)

NextRL ==
  \/ EnqueueUnit
  \/ BackoffElapsed
  \/ ThrottleElapsed
  \/ UnitFinish
  \/ UnitUpdatesLimits

SpecRL == Init /\ [][NextRL]_vars

\* the running unit reports a response without rate-limit headers, or
\* with 6 or 3 of 10 requests remaining
UnitReportsQuota ==
  UnitReports({NoHeaders,
               [remaining |-> <<"6">>, reset |-> <<"7">>, limit |-> <<"1", "0">>],
               [remaining |-> <<"3">>, reset |-> <<"7">>, limit |-> <<"1", "0">>]})

NextRLFair ==
  \/ EnqueueUnit
  \/ BackoffElapsed
  \/ ThrottleElapsed
  \/ UnitFinish
  \/ UnitReportsQuota

\* the RateLimiter with timers that fire and units whose execution
\* terminates; the units signal 429 at most MaxThrottle times in all
SpecRLFair ==
  /\ Init
  /\ [][NextRLFair]_vars
  /\ WF_vars(BackoffElapsed)
  /\ WF_vars(ThrottleElapsed)
  /\ WF_vars(UnitFinish)

(***************************************************************************)
(* Actions of the whole request layer (Spec, SpecFiles).                   *)
(***************************************************************************)
FilePaths == {<<"/", "a", "/", "f">>, <<"/", "f">>, <<"f">>}
DirPaths == {<<>>, <<"/">>, <<"/", "a">>}
Contents == {"", "x"}
File(rel, name) == [webkitRelativePath |-> rel, name |-> name]
Uploads == {<<File(<<"a", "/", "f">>, <<"f">>)>>,
            <<File(<<"a", "/", "b", "/", "f">>, <<"f">>), File(<<>>, <<"g">>)>>,
            <<File(<<>>, <<"f">>)>>}

Invocation(op, path, files) ==
  [op |-> op, path |-> path, files |-> files, content |-> ""]

\* the calls of SpecFiles: the file methods on every path of the model
FileInvocations ==
  {Invocation("getFiles", p, <<>>) : p \in DirPaths}
    \cup {Invocation("getFile", p, <<>>) : p \in FilePaths}
    \cup {Invocation("saveFile", p, <<>>) : p \in FilePaths}
    \cup {Invocation("uploadFiles", <<>>, fs) : fs \in Uploads}

\* the calls of Spec: one method of each kind of route and flags
ApiInvocations ==
  {Invocation(op, <<>>, <<>>) :
     op \in {"getModels", "getWorkspaceZip", "getGitHubAccessToken", "authenticate"}}
    \cup {Invocation(op, <<"/", "a", "/", "f">>, <<>>) : op \in {"getFile", "saveFile"}}

NewCall(inv) == [op |-> inv.op, path |-> inv.path, files |-> inv.files,
                 content |-> inv.content,
                 st |-> "pending", ret |-> Undefined, err |-> <<>>, hit |-> FALSE]

CallWith(inv) ==
  /\ Len(calls) < MaxCalls
  /\ Commit(Microtasks(Invoke([Cur EXCEPT !.calls = Append(@, NewCall(inv))],
                              Len(calls) + 1)))

\* a call to one of the methods of OpenHands
ApiCall == \E inv \in ApiInvocations : CallWith(inv)

\* a call to one of the file methods of OpenHands
FileCall == \E inv \in FileInvocations : CallWith(inv)

\* the login completes: getToken() returns a token from now on
Login ==
  /\ ~token
  /\ Commit([Cur EXCEPT !.token = TRUE])

\* the timer of the auth wait (lines 394-398) fires
AuthWaitElapsed ==
  \E u \in 1..Len(units) :
    /\ units[u].kind = "request"
    /\ units[u].st = "authWait"
    /\ Commit(Microtasks(Retry(Cur, u)))

Statuses == {200, 304, 401, 429, 500}

\* the quota records the rate-limit endpoint reports
ReportedQuotas ==
  {[requestsRemaining |-> Fin(r), resetTime |-> Fin(7), totalLimit |-> Fin(10)] :
     r \in {2, 6}}

\* the bodies response.json() can produce for a URL
Bodies(url) ==
  IF StartsWith(url, UrlSelectFile) THEN {FileJson(c) : c \in Contents}
  ELSE IF url = UrlRateLimit THEN {QuotaJson(info) : info \in ReportedQuotas}
  ELSE {Json("data")}

\* response.json() resolves in unit u: a quota record is a new object
JsonParsed(s, u, data) ==
  IF data.t = "quota"
  THEN ExecuteSettles([s EXCEPT !.heap = Append(@, data.v)], u, "ok",
                      Ref(Len(s.heap) + 1), <<>>)
  ELSE ExecuteSettles(s, u, "ok", data, <<>>)

\* fetch resolves with a response of one of the given statuses and headers
RespondWith(statuses, headerSets) ==
  \E u \in 1..Len(units), status \in statuses, h \in headerSets, date \in Dates :
    /\ units[u].kind = "request"
    /\ units[u].st = "fetch"
    /\ Len(h.reset) > 0 => date = 0
    /\ Commit(Microtasks(HandleResponse(Cur, u, status, h, date)))

Respond == RespondWith(Statuses, ResponseHeaders)

\* fetch rejects (network failure)
FetchFails ==
  \E u \in 1..Len(units) :
    /\ units[u].kind = "request"
    /\ units[u].st = "fetch"
    /\ Commit(Microtasks(OuterCatch(Cur, u, FailedToFetch)))

\* response.json() settles: with the parsed body, or with a parse error
\* that the inner catch turns into onFail, caught again by the outer catch
BodyParsed ==
  \E u \in 1..Len(units), ok \in BOOLEAN :
    /\ units[u].kind = "request"
    /\ units[u].st = "parse"
    /\ IF ok
       THEN \E data \in Bodies(units[u].url) :
              Commit(Microtasks(JsonParsed(Cur, u, data)))
       ELSE Commit(Microtasks(FailInTry(Cur, u, ParseErrorMessage(units[u].url))))

\* the retry-after timer of the 429 branch (line 429) fires
RetryAfterElapsed ==
  \E u \in 1..Len(units) :
    /\ units[u].kind = "request"
    /\ units[u].st = "retryAfter"
    /\ Commit(Microtasks(Retry(Cur, u)))

Next ==
  \/ ApiCall
  \/ Login
  \/ BackoffElapsed
  \/ AuthWaitElapsed
  \/ Respond
  \/ FetchFails
  \/ BodyParsed
  \/ RetryAfterElapsed

Spec == Init /\ [][Next]_vars

(***************************************************************************)
(* SpecFiles: the file methods of the facade in a logged-in session, on a  *)
(* cache that is empty or was filled by earlier reads, against a server    *)
(* that answers 200 or 500 and always sends its rate-limit headers.        *)
(***************************************************************************)
AmpleQuota == [remaining |-> <<"6">>, reset |-> <<"7">>, limit |-> <<"1", "0">>]

FilledCache ==
  LET listings == {FilesRootKey} \cup
                  {FilesPrefix \o d : d \in {<<"/">>, <<"/", "a">>, <<"a">>,
                                             <<"a", "/", "b">>}}
      contents == {FilePrefix \o p : p \in FilePaths}
  IN [k \in listings \cup contents \cup {<<"models">>} |->
        IF k \in contents THEN Str("x") ELSE Json("data")]

InitFiles ==
  /\ rateLimitInfo = [requestsRemaining |-> Infinity, resetTime |-> Fin(0),
                      totalLimit |-> Infinity]
  /\ requestQueue = <<>>
  /\ isProcessing = FALSE
  /\ backoffTime = InitialBackoffTime
  /\ loops = <<>>
  /\ units = <<>>
  /\ execLog = <<>>
  /\ calls = <<>>
  /\ cache \in {<<>>, FilledCache}
  /\ token = TRUE
  /\ lastResponse = [n |-> 0, unit |-> 0, status |-> 0, headers |-> NoHeaders]
  /\ heap = <<Unbounded>>
  /\ facadeRateLimitInfo = Ref(1)
  /\ serverFiles = <<>>

LowQuota == [remaining |-> <<"3">>, reset |-> <<"7">>, limit |-> <<"1", "0">>]

RespondFiles == RespondWith({200, 500}, {AmpleQuota, LowQuota})

NextFiles ==
  \/ FileCall
  \/ RespondFiles
  \/ BodyParsed
  \/ BackoffElapsed

SpecFiles == InitFiles /\ [][NextFiles]_vars

(***************************************************************************)
(* SpecQuota: the quota methods of the facade and getRateLimitInfo in a    *)
(* logged-in session, with callers that write to the objects they were     *)
(* handed.                                                                 *)
(***************************************************************************)
QuotaInvocations ==
  {Invocation(op, <<>>, <<>>) :
     op \in {"checkRateLimit", "getRateLimitStatus", "getRateLimitInfo", "getModels"}}

\* a call to one of the quota methods, or to getModels
QuotaCall == \E inv \in QuotaInvocations : CallWith(inv)

InitQuota ==
  /\ rateLimitInfo = Unbounded
  /\ requestQueue = <<>>
  /\ isProcessing = FALSE
  /\ backoffTime = InitialBackoffTime
  /\ loops = <<>>
  /\ units = <<>>
  /\ execLog = <<>>
  /\ calls = <<>>
  /\ cache = <<>>
  /\ token = TRUE
  /\ lastResponse = [n |-> 0, unit |-> 0, status |-> 0, headers |-> NoHeaders]
  /\ heap = <<Unbounded>>
  /\ facadeRateLimitInfo = Ref(1)
  /\ serverFiles = <<>>

RespondQuota == RespondWith({200, 401, 429, 500}, {NoHeaders, LowQuota})

\* the caller of a returned call writes to the object it was handed:
\* info.requestsRemaining = 0
CallerMutates ==
  \E c \in 1..Len(calls) :
    /\ calls[c].st = "returned"
    /\ calls[c].ret.t = "ref"
    /\ heap[calls[c].ret.v].requestsRemaining # Fin(0)
    /\ Commit([Cur EXCEPT !.heap[calls[c].ret.v].requestsRemaining = Fin(0)])

NextQuota ==
  \/ QuotaCall
  \/ RespondQuota
  \/ FetchFails
  \/ BodyParsed
  \/ BackoffElapsed
  \/ RetryAfterElapsed
  \/ CallerMutates

SpecQuota == InitQuota /\ [][NextQuota]_vars

(***************************************************************************)
(* SpecCoherent: getFile and saveFile on one file, called in any order and *)
(* before earlier calls have settled, against a server that keeps the      *)
(* file: a save answered with 200 has replaced its content, and a read     *)
(* returns the content the file has when the request is served.            *)
(***************************************************************************)
SharedPath == <<"/", "a", "/", "f">>
StoredContent == "o"
SavedContents == {"x", "y"}

CoherentInvocations ==
  {Invocation("getFile", SharedPath, <<>>)}
    \cup {[Invocation("saveFile", SharedPath, <<>>) EXCEPT !.content = c] :
            c \in SavedContents}

\* a call to getFile(p) or saveFile(p, c)
CoherentCall == \E inv \in CoherentInvocations : CallWith(inv)

InitCoherent ==
  /\ rateLimitInfo = Unbounded
  /\ requestQueue = <<>>
  /\ isProcessing = FALSE
  /\ backoffTime = InitialBackoffTime
  /\ loops = <<>>
  /\ units = <<>>
  /\ execLog = <<>>
  /\ calls = <<>>
  /\ cache \in {<<>>, FileKey(SharedPath) :> Str(StoredContent)}
  /\ token = TRUE
  /\ lastResponse = [n |-> 0, unit |-> 0, status |-> 0, headers |-> NoHeaders]
  /\ heap = <<Unbounded>>
  /\ facadeRateLimitInfo = Ref(1)
  /\ serverFiles = SharedPath :> StoredContent

\* the server serves the request of unit u with the given status: a save
\* answered with 200 has written the file
ServerServes(s, u, status) ==
  LET call == s.calls[s.units[u].call]
  IN IF s.units[u].url = UrlSaveFile /\ status = 200
     THEN [s EXCEPT !.serverFiles = CacheSet(@, call.path, call.content)]
     ELSE s

\* fetch resolves with the response of the server
ServerResponds ==
  \E u \in 1..Len(units), status \in {200, 500}, h \in {AmpleQuota, LowQuota} :
    /\ units[u].kind = "request"
    /\ units[u].st = "fetch"
    /\ Commit(Microtasks(HandleResponse(ServerServes(Cur, u, status), u,
                                        status, h, 0)))

\* the body of the response to unit u: the file as the server has it
ServerBody(u) ==
  IF StartsWith(units[u].url, UrlSelectFile)
  THEN FileJson(serverFiles[calls[units[u].call].path])
  ELSE Json("data")

\* response.json() resolves with the body the server sent, or rejects
ServerBodyParsed ==
  \E u \in 1..Len(units), ok \in BOOLEAN :
    /\ units[u].kind = "request"
    /\ units[u].st = "parse"
    /\ IF ok
       THEN Commit(Microtasks(JsonParsed(Cur, u, ServerBody(u))))
       ELSE Commit(Microtasks(FailInTry(Cur, u, ParseErrorMessage(units[u].url))))

NextCoherent ==
  \/ CoherentCall
  \/ ServerResponds
  \/ ServerBodyParsed
  \/ BackoffElapsed

SpecCoherent == InitCoherent /\ [][NextCoherent]_vars

(***************************************************************************)
(* Properties of the RateLimiter.                                          *)
(***************************************************************************)
Executing == {u \in 1..Len(units) : units[u].st \notin {"queued", "settled"}}

\* C1: at most one enqueued unit is executing (started and not yet settled)
\* at any time, and at most one drain loop is active, whatever the
\* interleaving of enqueue calls with execution and backoff delays.
C1_SingleFlight ==
  /\ Cardinality(Executing) <= 1
  /\ Len(loops) <= 1

\* a unit executes after a throttling, with another unit waiting behind it
C1_Witness ==
  /\ Len(loops) = 1
  /\ Cardinality(Executing) = 1
  /\ Len(requestQueue) >= 1
  /\ Throttles >= 1

\* C2: units begin execution in enqueue order, except that a unit that
\* failed with the 429 signal is the next unit executed, ahead of every
\* unit enqueued after it. Unit ids are assigned in enqueue order.
C2_FifoWithRequeue ==
  \A j \in 1..Len(execLog) :
    /\ j = 1 => execLog[j].u = 1
    /\ j < Len(execLog) =>
         IF execLog[j].throttled
         THEN execLog[j + 1].u = execLog[j].u
         ELSE execLog[j + 1].u = execLog[j].u + 1

\* A is throttled once, runs again, then B runs: A, A, B
C2_Witness ==
  /\ Len(execLog) >= 3
  /\ execLog[1].throttled
  /\ execLog[2].u = 1 /\ ~execLog[2].throttled
  /\ execLog[3].u = 2

IsBounded(info) == info.requestsRemaining.k = "fin" /\ info.totalLimit.k = "fin"
NoKnownLimit(info) == info.requestsRemaining.k # "fin" /\ info.totalLimit.k # "fin"

\* p1/q1 < remaining/total <= p2/q2 for a bounded quota with total > 0
RatioWithin(info, p1, q1, p2, q2) ==
  /\ IsBounded(info)
  /\ info.totalLimit.n > 0
  /\ info.requestsRemaining.n * q1 > p1 * info.totalLimit.n
  /\ info.requestsRemaining.n * q2 <= p2 * info.totalLimit.n

\* remaining/total of a <= remaining/total of b, both with total > 0
RatioLeq(a, b) ==
  a.requestsRemaining.n * b.totalLimit.n <= b.requestsRemaining.n * a.totalLimit.n

\* C6: in every quota state the limiter holds in which remaining/total is
\* in (0.5, 1.0] or no limit is known, the computed backoff is 0.
C6_NoBackoffAboveHalfOrUnbounded ==
  (NoKnownLimit(rateLimitInfo) \/ RatioWithin(rateLimitInfo, 1, 2, 1, 1))
    => calculateBackoff(Cur) = 0

MaxQuota == 12
BoundedQuotas ==
  {[requestsRemaining |-> Fin(r), resetTime |-> Fin(0), totalLimit |-> Fin(l)] :
     r \in 0..MaxQuota, l \in 1..MaxQuota}

\* C7: for a bounded quota and the current base time: ratio in (0.2, 0.5]
\* gives base, (0.1, 0.2] gives 2*base, [0, 0.1] gives 4*base, and the
\* backoff never increases with the ratio.
C7_BackoffSteps ==
  LET info == rateLimitInfo
      b == calculateBackoff(Cur)
  IN IsBounded(info) =>
       /\ RatioWithin(info, 1, 5, 1, 2) => b = backoffTime
       /\ RatioWithin(info, 1, 10, 1, 5) => b = 2 * backoffTime
       /\ (info.totalLimit.n > 0 /\ info.requestsRemaining.n * 10 <= info.totalLimit.n)
            => b = 4 * backoffTime
       /\ info.totalLimit.n > 0 =>
            \A other \in BoundedQuotas :
              /\ RatioLeq(info, other) => BackoffOf(other, backoffTime) <= b
              /\ RatioLeq(other, info) => BackoffOf(other, backoffTime) >= b

\* the drain loop waits 2*base for a quota of 2/10 after the base doubled
C7_Witness ==
  /\ RatioWithin(rateLimitInfo, 1, 10, 1, 5)
  /\ rateLimitInfo.requestsRemaining.n * 5 = rateLimitInfo.totalLimit.n
  /\ backoffTime > InitialBackoffTime
  /\ \E i \in 1..Len(loops) : loops[i].pc = "backoff"

(***************************************************************************)
(* Properties of request().                                                *)
(***************************************************************************)
\* nothing is scheduled: no timer is pending, no fetch and no body read is
\* in flight, so no code of the request layer runs again unless a new call
\* is made
Quiescent ==
  /\ \A i \in 1..Len(loops) : loops[i].pc \notin {"backoff", "throttle"}
  /\ \A u \in 1..Len(units) :
       units[u].st \notin {"authWait", "fetch", "parse", "retryAfter"}

Children(u) == {c \in 1..Len(units) : units[c].parent = u}

SilentAuthenticate(c) ==
  /\ units[c].url = UrlAuthenticate
  /\ units[c].disableToast

RetryOf(u, c) ==
  /\ units[c].url = units[u].url
  /\ units[c].maxRetries = units[u].maxRetries - 1

SameOutcome(u, c) ==
  /\ units[u].future # "pending"
  /\ units[u].future = units[c].future
  /\ units[u].val = units[c].val
  /\ units[u].err = units[c].err

\* C3: once the request layer has come to rest, every call that received a
\* 401 has made exactly one silent /api/authenticate call that was actually
\* performed and, that call having succeeded, exactly one retry with the
\* budget decremented by one, whose outcome the caller's future has taken.
C3_ReauthThenRetry ==
  Quiescent =>
    \A u \in 1..Len(units) :
      401 \in units[u].seen =>
        /\ Children(u) # {}
        /\ LET a == Min(Children(u))
           IN /\ SilentAuthenticate(a)
              /\ units[a].fetches >= 1
              /\ units[a].future = "resolved" =>
                   \E r \in Children(u) :
                     /\ r > a
                     /\ RetryOf(u, r)
                     /\ Children(u) = {a, r}
                     /\ SameOutcome(u, r)

\* the statuses received by unit u and by the retries it issued
RECURSIVE ChainSeen(_)
ChainSeen(u) ==
  units[u].seen \cup
    (IF units[u].child # 0 /\ units[u].child <= Len(units)
     THEN ChainSeen(units[u].child) ELSE {})

RECURSIVE ChainFetches(_)
ChainFetches(u) ==
  units[u].fetches +
    (IF units[u].child # 0 /\ units[u].child <= Len(units)
     THEN ChainFetches(units[u].child) ELSE 0)

\* C4: once the request layer has come to rest, a call all of whose
\* responses were 429 has been rejected with "Max retries exceeded"; it
\* is not left pending.
C4_ThrottledCallFails ==
  Quiescent =>
    \A u \in 1..Len(units) :
      (units[u].kind = "request" /\ units[u].parent = 0 /\ ChainSeen(u) = {429}) =>
        /\ units[u].future = "rejected"
        /\ units[u].err = MaxRetriesExceeded

\* unit u found no token for a URL that needs one and retried after the delay
TookAuthWait(u) ==
  /\ units[u].kind = "request"
  /\ units[u].fetches = 0
  /\ units[u].child # 0

\* C5: once the request layer has come to rest, a call that waited for
\* the token has settled: with the result of the network call that was
\* performed once the token was there, or rejected with the
\* retries-exhausted error.
C5_AuthWaitRecovers ==
  Quiescent =>
    \A u \in 1..Len(units) :
      (TookAuthWait(u) /\ units[u].parent = 0) =>
        /\ units[u].future # "pending"
        /\ \/ ChainFetches(u) >= 1
           \/ units[u].future = "rejected" /\ units[u].err = MaxRetriesExceeded

\* C8: a response that carries no rate-limit headers leaves the stored
\* RateLimitInfo exactly as it was.
C8_NoHeadersNoUpdate ==
  [][(lastResponse'.n = lastResponse.n + 1
        /\ ~HasRateLimitHeaders(lastResponse'.headers))
       => rateLimitInfo' = rateLimitInfo]_vars

(***************************************************************************)
(* Properties of the cache invalidation by saveFile and uploadFiles.       *)
(***************************************************************************)
HasSlash(path) == \E i \in 1..Len(path) : path[i] = "/"
LastSlash(path) == CHOOSE i \in 1..Len(path) :
                     path[i] = "/" /\ \A j \in (i + 1)..Len(path) : path[j] # "/"

\* the directory that contains path; <<>> is the workspace root that
\* getFiles() lists
ParentDir(path) ==
  IF ~HasSlash(path) THEN <<>>
  ELSE IF LastSlash(path) = 1 THEN <<"/">>
  ELSE SubSeq(path, 1, LastSlash(path) - 1)

Cached(c, key) == Truthy(CacheGet(c, key))

\* call c returns successfully in this step
ReturnsNow(c, op) ==
  /\ c \in 1..Len(calls)
  /\ calls[c].op = op
  /\ calls[c].st = "pending"
  /\ calls'[c].st = "returned"

\* C9: when saveFile(p, content) returns successfully the cache holds no
\* entry under file:<p>, files:root and files:<parent directory of p>, so
\* getFile(p), getFiles(parent of p) and getFiles() go to the network.
C9_SaveFileInvalidates ==
  [][\A c \in 1..Len(calls) :
       ReturnsNow(c, "saveFile") =>
         /\ ~Cached(cache', FileKey(calls[c].path))
         /\ ~Cached(cache', FilesRootKey)
         /\ ~Cached(cache', FilesKey(ParentDir(calls[c].path)))]_vars

RelativePath(f) ==
  IF Len(f.webkitRelativePath) > 0 THEN f.webkitRelativePath ELSE f.name

\* C10: when uploadFiles(files) returns successfully the cache holds no
\* entry under files:root nor, for each uploaded file, under
\* files:<parent directory of the file's relative path>.
C10_UploadInvalidates ==
  [][\A c \in 1..Len(calls) :
       ReturnsNow(c, "uploadFiles") =>
         /\ FilesRootKey \notin DOMAIN cache'
         /\ \A i \in 1..Len(calls[c].files) :
              FilesKey(ParentDir(RelativePath(calls[c].files[i]))) \notin DOMAIN cache']_vars

\* an upload of a/b/f and g returned on a cache that held files:root and
\* files:a/b, and a later getFiles() went to the network
C10_Witness ==
  /\ <<"models">> \in DOMAIN cache
  /\ \E c \in 1..Len(calls) :
       /\ calls[c].op = "uploadFiles"
       /\ calls[c].st = "returned"
       /\ Len(calls[c].files) = 2
       /\ FilesPrefix \o <<"a", "/", "b">> \notin DOMAIN cache
       /\ FilesPrefix \o <<"a">> \in DOMAIN cache
       /\ \E d \in 1..Len(calls) :
            /\ d > c
            /\ calls[d].op = "getFiles"
            /\ calls[d].path = <<>>
            /\ ~calls[d].hit
            /\ calls[d].st = "pending"

\* the keys a mutation of the file at path can stale
StaleKeys(path) == {FileKey(path), FilesKey(ParentDir(path)), FilesRootKey}

\* the paths call c writes to
WrittenPaths(c) ==
  IF calls[c].op = "saveFile" THEN {calls[c].path}
  ELSE {RelativePath(calls[c].files[i]) : i \in 1..Len(calls[c].files)}

\* C11: when saveFile or uploadFiles returns successfully, the cache holds
\* no entry under file:<path>, files:<parent directory> and files:root for
\* any path the call wrote, and every other entry is as it was.
C11_MutationsInvalidateExactly ==
  [][\A c \in 1..Len(calls) :
       (ReturnsNow(c, "saveFile") \/ ReturnsNow(c, "uploadFiles")) =>
         LET stale == UNION {StaleKeys(p) : p \in WrittenPaths(c)}
         IN /\ \A k \in stale : k \notin DOMAIN cache'
            /\ \A k \in DOMAIN cache \ stale :
                 k \in DOMAIN cache' /\ cache'[k] = cache[k]]_vars

(***************************************************************************)
(* Properties of the routes and of the failures of request().              *)
(***************************************************************************)
MatchesUnauthedPrefix(url) ==
  \E prefix \in UNAUTHED_ROUTE_PREFIXES : StartsWith(url, prefix)

Started(u) == \E j \in 1..Len(execLog) : execLog[j].u = u

\* C12: a request to a URL that matches an unauthenticated-route prefix
\* never waits for the token: once started with budget left it has made
\* its network call itself, with the budget it was given, and the only
\* retry it ever issues follows a 401 or 429 response.
C12_UnauthedRouteSkipsAuthWait ==
  \A u \in 1..Len(units) :
    (units[u].kind = "request" /\ MatchesUnauthedPrefix(units[u].url)) =>
      /\ units[u].st # "authWait"
      /\ ~TookAuthWait(u)
      /\ (Started(u) /\ units[u].maxRetries >= 0) => units[u].fetches = 1
      /\ units[u].parent = 0 => units[u].maxRetries = DefaultMaxRetries

\* without a token, getModels() is fetching with its full budget while a
\* call to a route that needs the token is queued behind it
C12_Witness ==
  /\ ~token
  /\ \E u \in 1..Len(units) :
       /\ units[u].kind = "request"
       /\ units[u].url = UrlModels
       /\ units[u].st = "fetch"
       /\ units[u].fetches = 1
       /\ units[u].maxRetries = DefaultMaxRetries
  /\ \E v \in 1..Len(units) :
       units[v].kind = "request" /\ ~MatchesUnauthedPrefix(units[v].url)

\* unit u begins its execution in this step
StartsNow(u) ==
  /\ \E j \in 1..Len(execLog') : execLog'[j].u = u
  /\ ~\E j \in 1..Len(execLog) : execLog[j].u = u

\* the routes the specification lists as open: the three option listings,
\* the configuration document and the OAuth callback
ListedOpenRoutes ==
  {UrlModels, UrlAgents, UrlSecurityAnalyzers, UrlConfig, UrlGitHubCallback}

Contains(seq, sub) ==
  \E i \in 1..(Len(seq) - Len(sub) + 1) : SubSeq(seq, i, i + Len(sub) - 1) = sub

\* a status that is neither retried nor a success
FailingStatus(status) ==
  /\ status \notin {401, 429}
  /\ status >= 400 \/ ~(status >= 200 /\ status <= 299)

\* C14: a request that received a failing status is rejected with the
\* error raised for that status: its message carries the URL and the
\* status text of the response.
C14_StatusErrorReachesCaller ==
  \A u \in 1..Len(units) :
    units[u].kind = "request" =>
      \A status \in units[u].seen :
        FailingStatus(status) =>
          /\ units[u].future = "rejected"
          /\ units[u].err \in {StatusErrorMessage(units[u].url, status),
                               NotOkMessage(units[u].url, status)}
          /\ Contains(units[u].err, units[u].url)
          /\ Contains(units[u].err, <<StatusText(status)>>)

\* the toasts shown by unit u and by the retries it issued
RECURSIVE ChainToasts(_)
ChainToasts(u) ==
  units[u].toasts +
    (IF units[u].child # 0 /\ units[u].child <= Len(units)
     THEN ChainToasts(units[u].child) ELSE 0)

\* C15: a call whose future is rejected has shown exactly one toast if
\* toasts are not suppressed for it, and none if they are.
C15_OneToastPerFailure ==
  \A u \in 1..Len(units) :
    (units[u].kind = "request" /\ units[u].parent = 0
       /\ units[u].future = "rejected") =>
      ChainToasts(u) = IF units[u].disableToast THEN 0 ELSE 1

\* unit u met a failure that is not retried: a failing status, a rejected
\* fetch or a body that does not parse
FailedTerminally(u) ==
  \/ \E status \in units[u].seen : FailingStatus(status)
  \/ units[u].caught \in {FailedToFetch, ParseErrorMessage(units[u].url)}

\* C16: a request that met a failing status, a transport failure or a parse
\* failure made exactly one network call, issued no authenticate call and
\* no retry, and its failure has reached the caller: the future is
\* rejected and the facade call that awaited it threw the same error.
C16_TerminalFailureNotRetried ==
  \A u \in 1..Len(units) :
    (units[u].kind = "request" /\ FailedTerminally(u)) =>
      /\ units[u].fetches = 1
      /\ units[u].child = 0
      /\ Children(u) = {}
      /\ units[u].future = "rejected"
      /\ units[u].call # 0 =>
           /\ calls[units[u].call].st = "threw"
           /\ calls[units[u].call].err = units[u].err

\* one call failed on a status 500 and another on a body that did not parse
C16_Witness ==
  \E u, v \in 1..Len(units) :
    /\ 500 \in units[u].seen
    /\ units[u].future = "rejected"
    /\ units[v].caught = ParseErrorMessage(units[v].url)
    /\ units[v].seen = {200}
    /\ calls[units[v].call].st = "threw"

(***************************************************************************)
(* Properties of the quota state.                                          *)
(***************************************************************************)
\* the record OpenHands.rateLimitInfo refers to
FacadeQuota == heap[facadeRateLimitInfo.v]

\* C17: no returned call holds a reference to the record that
\* OpenHands.rateLimitInfo refers to, and a caller's write to an object it
\* was handed changes neither that record nor the limiter's.
C17_ReturnsCopies ==
  [][/\ \A c \in 1..Len(calls') :
          (calls'[c].st = "returned" /\ calls'[c].ret.t = "ref") =>
            calls'[c].ret # facadeRateLimitInfo'
     /\ (heap' # heap /\ Len(heap') = Len(heap) /\ calls' = calls) =>
          /\ heap'[facadeRateLimitInfo'.v] = FacadeQuota
          /\ rateLimitInfo' = rateLimitInfo]_vars

\* C18: the record behind getRateLimitStatus() is the unbounded one before
\* any call, and right after a response that carries rate-limit headers it
\* holds the values of those headers, as the limiter's record does.
C18_FacadeQuotaFollowsHeaders ==
  [][/\ calls = <<>> => FacadeQuota = Unbounded
     /\ (lastResponse'.n = lastResponse.n + 1
           /\ HasRateLimitHeaders(lastResponse'.headers))
          => heap'[facadeRateLimitInfo'.v] = rateLimitInfo']_vars

(***************************************************************************)
(* Properties of the cached reads.                                         *)
(***************************************************************************)
ReadOps == {"getModels", "getAgents", "getSecurityAnalyzers", "getConfig",
            "getFiles", "getFile"}

\* the cache key of a read call
KeyOf(call) ==
  CASE call.op = "getFiles" -> FilesKey(call.path)
    [] call.op = "getFile" -> FileKey(call.path)
    [] call.op = "getSecurityAnalyzers" -> <<"security-analyzers">>
    [] call.op = "getAgents" -> <<"agents">>
    [] call.op = "getConfig" -> <<"config">>
    [] OTHER -> <<"models">>

\* C19: a read call made while the cache holds an entry under its key
\* returns the stored value at once and issues no request, whatever the
\* stored value is.
C19_StoredValueServedFromCache ==
  [][\A c \in 1..Len(calls') :
       (c > Len(calls) /\ calls'[c].op \in ReadOps
          /\ KeyOf(calls'[c]) \in DOMAIN cache) =>
         /\ calls'[c].st = "returned"
         /\ calls'[c].ret = cache[KeyOf(calls'[c])]
         /\ Len(units') = Len(units)]_vars

\* the requests issued for facade call c
UnitsOf(c) == {u \in 1..Len(units') : units'[u].call = c}

\* C20: a checkRateLimit() call never throws and its request shows no
\* toast; when the request is rejected the call returns a new object with
\* the fields of the stored record, and OpenHands.rateLimitInfo and the
\* record it refers to are as they were.
C20_CheckRateLimitSwallowsFailure ==
  [][\A c \in 1..Len(calls) :
       calls[c].op = "checkRateLimit" =>
         /\ calls'[c].st # "threw"
         /\ \A u \in UnitsOf(c) : units'[u].toasts = 0
         /\ (calls[c].st = "pending"
               /\ \E u \in UnitsOf(c) : units'[u].future = "rejected") =>
              /\ calls'[c].st = "returned"
              /\ facadeRateLimitInfo' = facadeRateLimitInfo
              /\ heap'[facadeRateLimitInfo.v] = FacadeQuota
              /\ calls'[c].ret.t = "ref"
              /\ calls'[c].ret # facadeRateLimitInfo
              /\ calls'[c].ret.v > Len(heap)
              /\ heap'[calls'[c].ret.v] = FacadeQuota]_vars

\* a checkRateLimit() whose request failed on a 500 has returned a copy of
\* the record an earlier checkRateLimit() had stored
C20_Witness ==
  \E c, d \in 1..Len(calls) :
    /\ c < d
    /\ calls[c].op = "checkRateLimit" /\ calls[c].st = "returned"
    /\ calls[c].ret = facadeRateLimitInfo
    /\ FacadeQuota \in ReportedQuotas
    /\ calls[d].op = "checkRateLimit" /\ calls[d].st = "returned"
    /\ calls[d].ret # facadeRateLimitInfo
    /\ heap[calls[d].ret.v] = FacadeQuota
    /\ \E u \in 1..Len(units) :
         /\ units[u].call = d
         /\ units[u].seen = {500}
         /\ units[u].future = "rejected"
         /\ units[u].toasts = 0

(***************************************************************************)
(* Liveness and failure handling of the drain loop.                        *)
(***************************************************************************)
\* C21: the queue is never non-empty with the flag cleared and no loop
\* running, and every enqueued unit is eventually executed and its future
\* eventually settles, given that timers fire, executions terminate and no
\* unit signals 429 forever.
C21_DrainLoopLive ==
  /\ [](Len(requestQueue) > 0 => (isProcessing /\ Len(loops) = 1))
  /\ \A u \in 1..MaxUnits :
       (Len(units) >= u) ~>
         (/\ \E j \in 1..Len(execLog) : execLog[j].u = u
          /\ units[u].future # "pending")

\* every unit has settled, one of them after a throttling, and the loop
\* has exited with the flag cleared
C21_Witness ==
  /\ Len(units) = MaxUnits
  /\ \A u \in 1..Len(units) : units[u].future # "pending"
  /\ Throttles >= 1
  /\ requestQueue = <<>>
  /\ ~isProcessing
  /\ loops = <<>>

\* the executions of unit u that ended in the 429 signal
ThrottlesOf(u) ==
  Cardinality({j \in 1..Len(execLog) : execLog[j].u = u /\ execLog[j].throttled})

\* C22: the drain loop re-executes a unit that signals 429 on every attempt
\* a bounded number of times only: with the ceiling anywhere up to
\* MaxThrottle, a unit that has signalled 429 MaxThrottle times has been
\* rejected and is not put back on the queue ahead of the units behind it.
C22_ThrottlingHasCeiling ==
  \A u \in 1..Len(units) :
    (units[u].kind = "unit" /\ ThrottlesOf(u) >= MaxThrottle) =>
      /\ units[u].future = "rejected"
      /\ \A k \in 1..Len(requestQueue) : requestQueue[k] # u

\* C23: when the execution of a unit fails with an error that is not the
\* 429 signal, the loop rejects the unit's future with that error, does
\* not put the unit back on the queue nor execute it again, leaves the
\* backoff base as it is, and goes on with the head of the queue (after
\* the backoff delay if one is due), or exits if the queue is empty.
C23_FailureRejectsAndContinues ==
  [][\A u \in 1..Len(units) :
       /\ (units[u].st = "running" /\ units'[u].result = "err") =>
            /\ units'[u].st = "settled"
            /\ units'[u].future = "rejected"
            /\ units'[u].err = UnitError
            /\ \A k \in 1..Len(requestQueue') : requestQueue'[k] # u
            /\ backoffTime' = backoffTime
            /\ IF requestQueue = <<>>
               THEN ~isProcessing' /\ loops' = <<>>
               ELSE \/ /\ loops'[1].pc = "backoff"
                       /\ requestQueue' = requestQueue
                    \/ /\ loops'[1].pc = "execute"
                       /\ loops'[1].cur = Head(requestQueue)
                       /\ requestQueue' = Tail(requestQueue)
                       /\ execLog' = Append(execLog, [u |-> Head(requestQueue),
                                                      throttled |-> FALSE])
       /\ units[u].future = "rejected" =>
            /\ units'[u].future = "rejected"
            /\ \A j \in (Len(execLog) + 1)..Len(execLog') : execLog'[j].u # u]_vars

\* unit 1 failed and was rejected, unit 2 ran right after it and unit 3 is
\* still queued, the backoff base being what it was
C23_Witness ==
  /\ Len(units) >= 3
  /\ units[1].future = "rejected" /\ units[1].err = UnitError
  /\ execLog = <<[u |-> 1, throttled |-> FALSE], [u |-> 2, throttled |-> FALSE]>>
  /\ requestQueue = <<3>>
  /\ backoffTime = InitialBackoffTime

\* the drain loop awaits the execution of unit u
InFlight(u) == \E i \in 1..Len(loops) : loops[i].pc = "execute" /\ loops[i].cur = u

InQueue(u) == \E k \in 1..Len(requestQueue) : requestQueue[k] = u

\* C24: the unit in flight never waits for the outcome of a request that
\* is in the queue: neither for the nested /api/authenticate call nor for
\* the retry it issued after a 401, a 429 or the auth wait.
C24_NoWaitOnQueuedRequest ==
  \A u \in 1..Len(units) :
    (units[u].kind = "request" /\ InFlight(u)
       /\ units[u].st \in {"awaitAuth", "awaitRetry"}) =>
      ~InQueue(units[u].child)

(***************************************************************************)
(* Coherence of the cached file content.                                   *)
(***************************************************************************)
Settled(c) == calls[c].st = "returned"

\* C25: once every getFile(p) and saveFile(p, c) call made so far has
\* returned, the cache holds no entry under file:<p> or holds the content
\* the file has on the server, which is that of the last save answered
\* with 200.
C25_FileEntryNeverStale ==
  (\A c \in 1..Len(calls) : Settled(c)) =>
    \/ FileKey(SharedPath) \notin DOMAIN cache
    \/ cache[FileKey(SharedPath)] = Str(serverFiles[SharedPath])

\* getFile(p) fetched the stored content and cached it, then a save
\* replaced the content on the server and dropped the entry
C25_Witness ==
  /\ Len(calls) >= 2
  /\ \A c \in 1..Len(calls) : Settled(c)
  /\ calls[1].op = "getFile" /\ ~calls[1].hit /\ calls[1].ret = Str(StoredContent)
  /\ calls[2].op = "saveFile"
  /\ serverFiles[SharedPath] = calls[2].content
  /\ FileKey(SharedPath) \notin DOMAIN cache

====
